---- MODULE Spec2Model ----
(***************************************************************************)
(* Model of database-data/populate-tracks-db.py: the one-shot loader that  *)
(* reads database-data/garage61-all-tracks.json and upserts every record   *)
(* into the PostgreSQL table tracks through one psycopg2 connection.       *)
(*                                                                         *)
(* The database is modelled by its committed table (tracks) and by the     *)
(* session's open transaction (txn, tx_status).  psycopg2 connections are  *)
(* not autocommit: the first statement opens a transaction, a statement    *)
(* the server rejects puts that transaction in the aborted state, every    *)
(* later statement is then refused, and COMMIT of an aborted transaction   *)
(* is executed by the server as ROLLBACK without raising.                  *)
(***************************************************************************)
EXTENDS Integers, Sequences, FiniteSets, TLC

\* ---------------------------------------------------------------- bounds
MaxLen == 2
MaxRuns == 2

\* ------------------------------------------------------------ JSON input
\* A JSON object is a function from the keys it has to their values; a key
\* the object omits is outside its DOMAIN.  Null is JSON null / Python None
\* / SQL NULL.  Identifiers are kept as strings.
Null == "null"
IdValues == {Null, "1", "2"}
NameValues == {"Spa"}
VariantValues == {"GP"}
PlatformValues == {"2"}

\* an element of the array that is not an object (a JSON string)
NonObject == [json_string |-> "x"]

OptionalField(key, values) ==
    {<<>>} \cup {[k \in {key} |-> v] : v \in values}

TrackObjects ==
    {i @@ n @@ v @@ p :
        i \in OptionalField("id", IdValues),
        n \in OptionalField("name", NameValues),
        v \in OptionalField("variant", VariantValues),
        p \in OptionalField("platform_id", PlatformValues)}

JsonElements == TrackObjects \cup {NonObject}

JsonArrays == UNION {[1..n -> JsonElements] : n \in 0..MaxLen}

\* what the fixed path database-data/garage61-all-tracks.json holds: nothing,
\* text that json.load refuses, or an array
JsonFiles ==
    {[kind |-> "absent", content |-> <<>>],
     [kind |-> "invalid", content |-> <<>>]}
    \cup {[kind |-> "array", content |-> a] : a \in JsonArrays}

\* -------------------------------------------------------------- database
\* rows present before the first run
OldRows ==
    {[id |-> "1", name |-> "Old", variant |-> "GP", platform_id |-> Null],
     [id |-> "2", name |-> "Old", variant |-> Null, platform_id |-> "2"]}

\* the table before the first run: empty, or holding the old rows
InitialTables == {{}, OldRows}

\* DATABASE_URL: unset, set to the empty string, or a connection string
UrlValues == {"unset", "", "postgresql://u:p@h:5432/db"}

VARIABLES
    json_file,      \* content of the input file (fixed for a behaviour)
    database_url,   \* os.getenv('DATABASE_URL')
    tracks,         \* committed rows of table tracks
    txn,            \* rows as seen inside the session's transaction
    tx_status,      \* "idle", "active" or "aborted"
    pc,             \* position in the script
    tracks_data,    \* the parsed array
    conn,           \* "none", "open" or "closed"
    idx,            \* index of the next element of the for loop
    inserted,       \* the success counter
    log,            \* lines printed on the console
    success,        \* return value of populate_tracks ("none" before)
    exit_status,    \* process exit status (-1 while running)
    calls,          \* per-run count of database client calls, by kind
    run,            \* number of the current invocation
    start_tracks,   \* committed table when the current run started
    history         \* per finished run: its result and the table it left

vars == <<json_file, database_url, tracks, txn, tx_status, pc, tracks_data,
          conn, idx, inserted, log, success, exit_status, calls, run,
          start_tracks, history>>

NoCalls == [connect |-> 0, cursor |-> 0, execute |-> 0, commit |-> 0,
            count |-> 0, rollback |-> 0, close |-> 0]

Line(tag, label, n) == [tag |-> tag, label |-> label, n |-> n]

Init ==
    /\ json_file \in JsonFiles
    /\ database_url \in UrlValues
    /\ tracks \in InitialTables
    /\ txn = tracks
    /\ tx_status = "idle"
    /\ pc = "start"
    /\ tracks_data = <<>>
    /\ conn = "none"
    /\ idx = 1
    /\ inserted = 0
    /\ log = <<>>
    /\ success = "none"
    /\ exit_status = -1
    /\ calls = NoCalls
    /\ run = 1
    /\ start_tracks = tracks
    /\ history = <<>>

\* ------------------------------------------------------- pure operators
IsObject(track) == "json_string" \notin DOMAIN track

\* track.get(key): the value, or None when the key is missing
Get(track, key) == IF key \in DOMAIN track THEN track[key] ELSE Null

\* str() of a value inside an f-string: None prints as "None"
Str(v) == IF v = Null THEN "None" ELSE v

\* the fallback argument forgotten: track.get('id')
FailLabelNoDefault(track) == Str(Get(track, "id"))

\* track.get('id', 'unknown') as printed by the per-record handler
FailLabel(track) == IF "id" \in DOMAIN track THEN Str(track["id"]) ELSE "unknown"

\* the parameter tuple (track['id'], track['name'], track.get('variant'),
\* track.get('platform_id')) can be built: both subscripts succeed
HasParams(track) ==
    IsObject(track) /\ "id" \in DOMAIN track /\ "name" \in DOMAIN track

Params(track) ==
    [id |-> track["id"], name |-> track["name"],
     variant |-> Get(track, "variant"),
     platform_id |-> Get(track, "platform_id")]

\* tracks.id is the primary key: the server rejects a NULL id
DbRejects(row) == row.id = Null

\* an UPDATE where the upsert should be: a new id is never inserted
UpsertUpdateOnly(table, row) ==
    {IF r.id = row.id
     THEN [r EXCEPT !.name = row.name, !.variant = row.variant,
                    !.platform_id = row.platform_id]
     ELSE r : r \in table}

\* SET variant = tracks.platform_id: the stored row read instead of EXCLUDED
UpsertReadsStoredRow(table, row) ==
    IF \E r \in table : r.id = row.id
    THEN {IF r.id = row.id
          THEN [r EXCEPT !.name = row.name, !.variant = r.platform_id,
                         !.platform_id = row.platform_id]
          ELSE r : r \in table}
    ELSE table \cup {row}

\* the SET list without variant
UpsertKeepsVariant(table, row) ==
    IF \E r \in table : r.id = row.id
    THEN {IF r.id = row.id
          THEN [r EXCEPT !.name = row.name, !.platform_id = row.platform_id]
          ELSE r : r \in table}
    ELSE table \cup {row}

\* INSERT ... ON CONFLICT (id) DO UPDATE SET name, variant, platform_id
Upsert(table, row) ==
    IF \E r \in table : r.id = row.id
    THEN {IF r.id = row.id
          THEN [r EXCEPT !.name = row.name, !.variant = row.variant,
                         !.platform_id = row.platform_id]
          ELSE r : r \in table}
    ELSE table \cup {row}

\* COMMIT as the server executes it: an aborted transaction is rolled back
Committed(table, work, status) ==
    IF status = "aborted" THEN table ELSE work

\* `return False` of populate_tracks
ReturnFalse(l) ==
    /\ log' = l
    /\ success' = "False"
    /\ pc' = "returned"

\* the handler without conn.rollback()
HandlerNoRollback(c, l) ==
    /\ calls' = [c EXCEPT !.close = @ + 1]
    /\ UNCHANGED <<txn, tx_status>>
    /\ conn' = "closed"
    /\ ReturnFalse(Append(l, Line("db_failed", "", 0)))

\* the handler without conn.close()
HandlerNoClose(c, l) ==
    /\ calls' = [c EXCEPT !.rollback = @ + 1]
    /\ txn' = tracks
    /\ tx_status' = "idle"
    /\ UNCHANGED conn
    /\ ReturnFalse(Append(l, Line("db_failed", "", 0)))

\* the outer `except Exception` block: print, rollback, close, return False
Handler(c, l) ==
    /\ calls' = [c EXCEPT !.rollback = @ + 1, !.close = @ + 1]
    /\ txn' = tracks
    /\ tx_status' = "idle"
    /\ conn' = "closed"
    /\ ReturnFalse(Append(l, Line("db_failed", "", 0)))

\* ---------------------------------------------------------------- actions
\* os.path.exists(json_file)
CheckFile ==
    /\ pc = "start"
    /\ IF json_file.kind = "absent"
       THEN ReturnFalse(Append(log, Line("file_not_found", "", 0)))
       ELSE pc' = "load" /\ UNCHANGED <<log, success>>
    /\ UNCHANGED <<json_file, database_url, tracks, txn, tx_status,
                   tracks_data, conn, idx, inserted, exit_status, calls, run,
                   start_tracks, history>>

\* json.load and the "Loaded n tracks" line
LoadJson ==
    /\ pc = "load"
    /\ IF json_file.kind = "invalid"
       THEN /\ ReturnFalse(Append(log, Line("json_failed", "", 0)))
            /\ UNCHANGED tracks_data
       ELSE /\ tracks_data' = json_file.content
            /\ log' = Append(log, Line("loaded", "", Len(json_file.content)))
            /\ pc' = "connect"
            /\ UNCHANGED success
    /\ UNCHANGED <<json_file, database_url, tracks, txn, tx_status, conn,
                   idx, inserted, exit_status, calls, run, start_tracks,
                   history>>

\* `if database_url is None`: the empty string passes
UrlMissingNoneOnly == database_url = "unset"

\* `if not database_url`: unset or empty
UrlMissing == database_url \in {"unset", ""}

\* conn = get_db_connection(); if not conn: return False
GetDbConnection ==
    /\ pc = "connect"
    /\ IF UrlMissing
       THEN /\ ReturnFalse(Append(log, Line("url_not_set", "", 0)))
            /\ UNCHANGED <<conn, calls>>
       ELSE \E connected \in BOOLEAN :
            /\ calls' = [calls EXCEPT !.connect = @ + 1]
            /\ IF connected
               THEN /\ conn' = "open"
                    /\ pc' = "cursor"
                    /\ UNCHANGED <<log, success>>
               ELSE /\ ReturnFalse(Append(log, Line("connect_failed", "", 0)))
                    /\ UNCHANGED conn
    /\ UNCHANGED <<json_file, database_url, tracks, txn, tx_status,
                   tracks_data, idx, inserted, exit_status, run, start_tracks,
                   history>>

\* cursor = conn.cursor(); inserted = 0
CreateCursor ==
    /\ pc = "cursor"
    /\ \E raised \in BOOLEAN :
        LET c == [calls EXCEPT !.cursor = @ + 1] IN
        IF raised
        THEN /\ Handler(c, log)
             /\ UNCHANGED <<idx, inserted>>
        ELSE /\ calls' = c
             /\ idx' = 1
             /\ inserted' = 0
             /\ pc' = "loop"
             /\ UNCHANGED <<txn, tx_status, conn, log, success>>
    /\ UNCHANGED <<json_file, database_url, tracks, tracks_data,
                   exit_status, run, start_tracks, history>>

\* the commit indented into the loop body: reached after the first element
LoopFinishedEarly == idx > Len(tracks_data) \/ idx > 1

\* the for loop has consumed every element of tracks_data
LoopFinished == idx > Len(tracks_data)

\* one iteration of `for track in tracks_data`
LoopBody ==
    /\ pc = "loop"
    /\ ~LoopFinished
    /\ LET track == tracks_data[idx]
           failed == Append(log, Line("insert_failed", FailLabel(track), 0))
           c == [calls EXCEPT !.execute = @ + 1]
       IN
       IF ~IsObject(track)
       THEN \* track['id'] raises TypeError, track.get in the handler raises
            \* AttributeError, which leaves the loop
            /\ Handler(calls, log)
            /\ UNCHANGED <<idx, inserted>>
       ELSE IF ~HasParams(track)
       THEN \* KeyError before cursor.execute is called
            /\ log' = failed
            /\ idx' = idx + 1
            /\ UNCHANGED <<txn, tx_status, conn, inserted, success, pc, calls>>
       ELSE IF tx_status = "aborted" \/ DbRejects(Params(track))
       THEN \* the server refuses the statement
            /\ calls' = c
            /\ tx_status' = "aborted"
            /\ log' = failed
            /\ idx' = idx + 1
            /\ UNCHANGED <<txn, conn, inserted, success, pc>>
       ELSE /\ calls' = c
            /\ txn' = Upsert(txn, Params(track))
            /\ tx_status' = "active"
            /\ inserted' = inserted + 1
            /\ idx' = idx + 1
            /\ UNCHANGED <<conn, log, success, pc>>
    /\ UNCHANGED <<json_file, database_url, tracks, tracks_data,
                   exit_status, run, start_tracks, history>>

\* conn.commit() and the "Successfully inserted/updated" line
Commit ==
    /\ pc = "loop"
    /\ LoopFinished
    /\ \E raised \in BOOLEAN :
        LET c == [calls EXCEPT !.commit = @ + 1] IN
        IF raised
        THEN /\ Handler(c, log)
             /\ UNCHANGED tracks
        ELSE /\ calls' = c
             /\ tracks' = Committed(tracks, txn, tx_status)
             /\ txn' = Committed(tracks, txn, tx_status)
             /\ tx_status' = "idle"
             /\ log' = Append(log, Line("upserted", "", inserted))
             /\ pc' = "verify"
             /\ UNCHANGED <<conn, success>>
    /\ UNCHANGED <<json_file, database_url, tracks_data, idx, inserted,
                   exit_status, run, start_tracks, history>>

\* SELECT COUNT(*), the total line, cursor.close, conn.close, return True
CountQuery ==
    /\ pc = "verify"
    /\ \E raised \in BOOLEAN :
        LET c == [calls EXCEPT !.count = @ + 1] IN
        IF raised
        THEN Handler(c, log)
        ELSE /\ calls' = [c EXCEPT !.close = @ + 1]
             /\ log' = Append(log, Line("total", "", Cardinality(txn)))
             /\ conn' = "closed"
             /\ success' = "True"
             /\ pc' = "returned"
             /\ UNCHANGED <<txn, tx_status>>
    /\ UNCHANGED <<json_file, database_url, tracks, tracks_data, idx,
                   inserted, exit_status, run, start_tracks, history>>

\* exit(1) forgotten
ExitCodeAlwaysZero(returned) == 0

\* exit status for the value populate_tracks returned
ExitCode(returned) == IF returned = "True" THEN 0 ELSE 1

\* the __main__ block: exit(1) when populate_tracks returned False
Main ==
    /\ pc = "returned"
    /\ exit_status' = ExitCode(success)
    /\ log' = Append(log, Line(IF success = "True" THEN "completed" ELSE "failed",
                                "", 0))
    /\ history' = Append(history, [success |-> success, tracks |-> tracks])
    /\ pc' = "exited"
    /\ UNCHANGED <<json_file, database_url, tracks, txn, tx_status,
                   tracks_data, conn, idx, inserted, success, calls, run,
                   start_tracks>>

\* the script is started again on the same file, environment and database
NextRun ==
    /\ pc = "exited"
    /\ run < MaxRuns
    /\ run' = run + 1
    /\ start_tracks' = tracks
    /\ txn' = tracks
    /\ tx_status' = "idle"
    /\ pc' = "start"
    /\ tracks_data' = <<>>
    /\ conn' = "none"
    /\ idx' = 1
    /\ inserted' = 0
    /\ log' = <<>>
    /\ success' = "none"
    /\ exit_status' = -1
    /\ calls' = NoCalls
    /\ UNCHANGED <<json_file, database_url, tracks, history>>

Next ==
    \/ CheckFile
    \/ LoadJson
    \/ GetDbConnection
    \/ CreateCursor
    \/ LoopBody
    \/ Commit
    \/ CountQuery
    \/ Main
    \/ NextRun

Spec == Init /\ [][Next]_vars

TypeOK ==
    /\ pc \in {"start", "load", "connect", "cursor", "loop", "verify",
               "returned", "exited"}
    /\ conn \in {"none", "open", "closed"}
    /\ tx_status \in {"idle", "active", "aborted"}
    /\ success \in {"none", "True", "False"}

\* ------------------------------------------------------------ vocabulary
Ended == pc \in {"returned", "exited"}

LogHas(tag) == \E i \in 1..Len(log) : log[i].tag = tag

Indices == 1..Len(tracks_data)

\* a track object as the data model describes it: an object with an id and
\* a name, the id not null
ValidTrack(track) ==
    /\ IsObject(track)
    /\ "id" \in DOMAIN track
    /\ "name" \in DOMAIN track
    /\ track["id"] # Null

AllValid == \A i \in Indices : ValidTrack(tracks_data[i])

InputIds == {tracks_data[i]["id"] : i \in {j \in Indices : ValidTrack(tracks_data[j])}}

LastIndex(id) ==
    CHOOSE i \in Indices :
        /\ ValidTrack(tracks_data[i])
        /\ tracks_data[i]["id"] = id
        /\ \A j \in Indices :
            (ValidTrack(tracks_data[j]) /\ tracks_data[j]["id"] = id) => j <= i

\* the row holds exactly what the record says, null for an omitted optional
RowHolds(r, track) ==
    /\ r.id = track["id"]
    /\ r.name = track["name"]
    /\ r.variant = (IF "variant" \in DOMAIN track THEN track["variant"] ELSE Null)
    /\ r.platform_id =
         (IF "platform_id" \in DOMAIN track THEN track["platform_id"] ELSE Null)

\* --------------------------------------------------------------- claims
\* C1: when the input is an array of valid track objects and populate_tracks
\* got a connection and returned True, every id of the input is the id of a
\* row of the tracks table.
C1_EveryIdPresent ==
    (Ended /\ success = "True" /\ AllValid) =>
        \A i \in Indices : \E r \in tracks : r.id = tracks_data[i]["id"]

C1_Witness ==
    /\ pc = "returned" /\ success = "True" /\ AllValid
    /\ Len(tracks_data) >= 2
    /\ tracks_data[1]["id"] # tracks_data[2]["id"]
    /\ \E i \in Indices : \A r \in start_tracks : r.id # tracks_data[i]["id"]

\* C2: once a run has returned True, running the script again on the same
\* file leaves the tracks table exactly as that run left it.
C2_Idempotent ==
    \A k \in 1..(Len(history) - 1) :
        history[k].success = "True" => history[k + 1].tracks = history[k].tracks

C2_Witness ==
    /\ Len(history) >= 2
    /\ history[1].success = "True"
    /\ history[2].success = "True"
    /\ \E r \in history[2].tracks : r.name = "Spa"
    /\ \E r \in history[2].tracks : r.name = "Old"

C4_OthersPersisted ==
    (Ended /\ success = "True") =>
        /\ inserted + Cardinality({i \in 1..Len(log) : log[i].tag = "insert_failed"})
             = Len(tracks_data)
        /\ \A i \in Indices :
             ValidTrack(tracks_data[i]) =>
                 \E r \in tracks : r.id = tracks_data[i]["id"]

\* C5 as stated: whenever the outer handler ran, the run rolled back, closed
\* the connection, returned False, and none of its upserts are in the table.
C5_NothingRemains ==
    (Ended /\ LogHas("db_failed")) =>
        /\ calls.rollback = 1
        /\ conn = "closed"
        /\ success = "False"
        /\ tracks = start_tracks

\* C5 amended: whenever the outer handler ran, the run rolled back, closed the
\* connection and returned False; none of its upserts are in the table when
\* the exception came before the count query (cursor creation, an escape from
\* the per-record handler, the commit).
C5_RollbackBeforeCount ==
    (Ended /\ LogHas("db_failed")) =>
        /\ calls.rollback = 1
        /\ calls.close = 1
        /\ conn = "closed"
        /\ txn = tracks
        /\ success = "False"
        /\ (calls.count = 0 => tracks = start_tracks)

C5_Witness ==
    /\ pc = "returned" /\ LogHas("db_failed")
    /\ calls.commit = 1 /\ calls.count = 0
    /\ inserted >= 1
    /\ tracks = start_tracks

\* C6: a connection is attempted only after the file was found and parsed and
\* with DATABASE_URL non-empty; with the file absent or unparsable, or the
\* variable unset, the run returns False and exits 1 without any connection
\* attempt or statement and with the table unchanged.
C6_ConnectLast ==
    /\ calls.connect > 0 =>
         /\ json_file.kind = "array"
         /\ tracks_data = json_file.content
         /\ LogHas("loaded")
         /\ database_url \notin {"unset", ""}
    /\ (json_file.kind # "array" \/ database_url \in {"unset", ""}) =>
         /\ calls = NoCalls
         /\ conn = "none"
         /\ tracks = start_tracks
         /\ pc \notin {"cursor", "loop", "verify"}
         /\ (pc = "returned" => success = "False")
         /\ (pc = "exited" => exit_status = 1)

C6_Witness ==
    /\ pc = "exited" /\ exit_status = 1
    /\ json_file.kind = "array" /\ Len(json_file.content) > 0
    /\ database_url = "unset"
    /\ tracks # {}

\* C7: the exit status is 1 exactly when DATABASE_URL is unset, the connection
\* failed, the file is missing, the JSON did not parse, or the outer database
\* handler ran; otherwise it is 0, whatever happened to individual records.
OverallFailure ==
    \/ json_file.kind \in {"absent", "invalid"}
    \/ database_url \in {"unset", ""}
    \/ LogHas("connect_failed")
    \/ LogHas("db_failed")

C7_ExitStatus ==
    pc = "exited" =>
        /\ exit_status \in {0, 1}
        /\ exit_status = 1 <=> OverallFailure

C7_Witness ==
    /\ pc = "exited" /\ exit_status = 0
    /\ Len(tracks_data) >= 2
    /\ inserted = 0
    /\ calls.execute >= 1

\* C8: the iteration of a record without an 'id' key executes no statement,
\* prints a failure line labelled 'unknown', leaves the counter alone and
\* moves on to the next record without ending the run; and a run that returned
\* True committed once and reported as count the number of records whose
\* statement executed without error.
StatementSucceeded(i) ==
    /\ HasParams(tracks_data[i])
    /\ \A j \in 1..i :
         HasParams(tracks_data[j]) => tracks_data[j]["id"] # Null

NoIdStep ==
    (pc = "loop" /\ idx <= Len(tracks_data) /\ IsObject(tracks_data[idx])
       /\ "id" \notin DOMAIN tracks_data[idx]) =>
        /\ calls' = calls
        /\ log' = Append(log, Line("insert_failed", "unknown", 0))
        /\ inserted' = inserted
        /\ idx' = idx + 1
        /\ pc' = "loop"
        /\ success' = success
        /\ conn' = conn
        /\ txn' = txn /\ tracks' = tracks

ReportedCount ==
    (Ended /\ success = "True") =>
        /\ calls.commit = 1
        /\ inserted = Cardinality({i \in Indices : StatementSucceeded(i)})
        /\ \E i \in 1..Len(log) : log[i] = Line("upserted", "", inserted)

C8_MissingIdSkipped == [][NoIdStep /\ ReportedCount']_vars

C8_Witness ==
    /\ pc = "returned" /\ success = "True"
    /\ Len(tracks_data) >= 2
    /\ IsObject(tracks_data[1]) /\ "id" \notin DOMAIN tracks_data[1]
    /\ inserted = Len(tracks_data) - 1
    /\ tracks # start_tracks
    /\ \E i \in 1..Len(log) : log[i].label = "unknown"

\* C9: a run connects at most once, and a run that ended after the connection
\* was opened has closed it.
C9_ConnectionClosed ==
    /\ calls.connect <= 1
    /\ (Ended /\ LogHas("loaded") /\ calls.connect = 1
          /\ ~LogHas("connect_failed")) =>
         (conn = "closed" /\ calls.close = 1)
    /\ conn = "open" => pc \in {"cursor", "loop", "verify"}

C9_Witness ==
    /\ pc = "exited" /\ conn = "closed"
    /\ calls.connect = 1 /\ calls.cursor = 1 /\ calls.commit = 0
    /\ calls.execute >= 1

\* C10: commit is called at most once per run and only when every record has
\* had its turn; before the commit the table holds none of the run's upserts;
\* the count query runs only after the commit.
C10_SingleCommit ==
    /\ calls.commit <= 1
    /\ calls.commit = 1 =>
         /\ idx = Len(tracks_data) + 1
         /\ inserted + Cardinality({i \in 1..Len(log) : log[i].tag = "insert_failed"})
              = Len(tracks_data)
    /\ calls.commit = 0 => tracks = start_tracks
    /\ calls.count <= 1
    /\ calls.count = 1 => (calls.commit = 1 /\ LogHas("upserted"))

C10_Witness ==
    /\ pc = "verify"
    /\ calls.commit = 1 /\ calls.count = 0
    /\ Len(tracks_data) >= 2
    /\ inserted >= 1 /\ inserted < Len(tracks_data)
    /\ tracks # start_tracks

====
